---- MODULE Spec2Model ----
(***************************************************************************)
(* A model of src/lib/knobdrag.ts: the Svelte action `knobdrag`, which     *)
(* turns vertical pointer movement on a knob element into clamped, stepped *)
(* changes of a value store, and its two behaviours `pointercapture` and   *)
(* `pointerlock`.                                                          *)
(*                                                                         *)
(* Numbers.  The program computes with JavaScript numbers.  The model      *)
(* represents a number x by the integer x * Den (fixed point, Den = 2^21   *)
(* units per 1.0).  All parameter sets and inputs below are chosen so that *)
(* every quantity the program computes is a multiple of 1/Den (a dyadic    *)
(* rational of small magnitude), for which IEEE-754 double arithmetic,     *)
(* including / and %, is exact: on these inputs the model and the program  *)
(* compute the same numbers.  `movementY` and `space` are pixel counts and *)
(* are kept as plain integers.                                             *)
(***************************************************************************)
EXTENDS Integers, FiniteSets, Sequences, TLC

\* ------------------------------------------------------------------ bounds
\* largest |movementY| of one pointermove event
MaxMove == 2
\* pointer ids are 1..MaxPointers
MaxPointers == 1
\* initial / typed store values are drawn from the integers -MaxAbs..MaxAbs
MaxAbs == 3
\* floorToStep's inputs in SpecFn are k/4 for k in -MaxFn..MaxFn
MaxFn == 16

\* ------------------------------------------------------- number encoding
\* fixed-point units per 1.0
Den == 2^21
\* the literal 0.000001 of floorToStep is 1 / EpsInv
EpsInv == 1000000
U(n) == n * Den

\* A variable of type null | number holds Null or Num(x); NumOf reads x back.
Null == <<>>
Num(x) == <<x>>
NumOf(r) == r[1]

Min2(a, b) == IF a < b THEN a ELSE b
Max2(a, b) == IF a > b THEN a ELSE b

\* JavaScript's % on numbers: the remainder of the division truncated toward
\* zero; the result has the sign of the dividend.
JsRem(a, b) == IF a >= 0 THEN a % b ELSE -((-a) % b)

\* Math.min(Math.max(a, b), c)
clamp(a, b, c) == Min2(Max2(a, b), c)

\* ------------------------------------------------------------ parameters
\* The Params the action is attached with or updated to (min, max, step in
\* fixed-point units, space in pixels).
\*   PA: range 2 over 4 px (half a unit per pixel), negative and positive
\*       values, step 1
\*   PB: range 2 over 2 px (one unit per pixel), min = 1 is not a multiple
\*       of step = 3, max = 3 is
PA == [min |-> U(-1), max |-> U(1), step |-> U(1), space |-> 4]
PB == [min |-> U(1), max |-> U(3), step |-> U(3), space |-> 2]
ParamSet == {PA, PB}
\* The Params update() is called with.
UpdateSet == {PB}

\* Values the store can be attached with: the integers and 3 - 2^-21, within
\* [min, max].
Candidates == {U(k) : k \in -MaxAbs..MaxAbs} \cup {U(3) - 1}
StoreValues(p) == {v \in Candidates : p.min <= v /\ v <= p.max}
\* Values typed into the input while the action is attached.
TypedValues(p) == {v \in StoreValues(p) : v = p.max \/ v = p.min + U(1)}

PointerIds == 1..MaxPointers
Buttons == {0, 2}
\* movementY of one event: nothing, one pixel, or MaxMove pixels, up or down
MoveSet == {-MaxMove, -1, 0, 1, MaxMove}

VARIABLES
    params,             \* the action's current Params (min, max, step, space)
    range,              \* `range`, computed once at attachment
    scaleFactor,        \* `scaleFactor` = space / range, as [num, den]
    value,              \* the value held by params.valueStore
    rawValue,           \* `rawValue`: Null or Num(x)
    moved,              \* `moved`
    actions,            \* the Map `actions`: name -> behaviour instance id
    listeners,          \* attached listeners: <<event type, function, instance>>
    optionsLock,        \* $options.lockCursor
    captured,           \* pointer ids for which elem.hasPointerCapture
    pointerLocked,      \* document.pointerLockElement === elem
    lockPending,        \* elem.requestPointerLock() called, not yet answered
    exitPending,        \* document.exitPointerLock() called, not yet carried out
    destroyed,          \* history: destroy() has been called
    ev,                 \* history: the last event and what it triggered
    sinceUp,            \* history: knobMove passed its guard since the last pointerup
    track,              \* history: store value rawValue was latched from, and
                        \* the movement summed since, while only unclamped
                        \* pointermoves have acted on rawValue; and `typed`:
                        \* the store was set from outside while no drag was
                        \* in progress, and knobMove has not written since
    upRun,              \* history: pixels of the current run of upward moves
                        \* (a run that began with the value within [min, max])
    fv,                 \* SpecFn: the input of floorToStep
    fres                \* SpecFn: its result (Null before it is applied)

vars == <<params, range, scaleFactor, value, rawValue, moved, actions, listeners,
          optionsLock, captured, pointerLocked, lockPending, exitPending,
          destroyed, ev, sinceUp, track, upRun, fv, fres>>

\* ------------------------------------------------------- pure functions
\* (mutant of hasCapture: the pointer lock is not consulted)
hasCapture_CaptureOnly(pointerId) == pointerId \in captured

\* hasCapture(pointerId, elem)
hasCapture(pointerId) == pointerId \in captured \/ pointerLocked

\* scaleFactor = params.space / range at attachment.  A zero range makes it
\* Infinity, and distance / Infinity is 0.
scaleMovement(distance) ==
    IF scaleFactor.den = 0 THEN 0
    ELSE (distance * scaleFactor.den) \div scaleFactor.num

\* surplus + 0.000001 > step, for numbers in units of 1/Den:
\*   surplus/Den + 1/EpsInv > step/Den  <=>  (step - surplus) * EpsInv < Den
\*   <=>  step - surplus <= (Den - 1) \div EpsInv     (all integers)
\* (the last form keeps the products within TLC's integers)
Lenient(surplus, step) == step - surplus <= (Den - 1) \div EpsInv

floorToStep(v) ==
    LET surplus0 == JsRem(v, params.step)
        surplus == IF Lenient(surplus0, params.step) THEN 0 ELSE surplus0
    IN v - surplus


\* knobMove's guard: movementY && hasCapture(pointerId, elem)
knobMoveGuard(movementY, pointerId) == movementY # 0 /\ hasCapture(pointerId)

\* knobMove's new rawValue: latch the store's value when rawValue is null,
\* then accumulate the scaled movement and clamp.
knobMoveRaw(movementY) ==
    clamp(params.min,
          (IF rawValue = Null THEN value ELSE NumOf(rawValue))
              - scaleMovement(movementY),
          params.max)

\* the value knobMove's updater returns to the store
knobMoveValue(movementY) == floorToStep(knobMoveRaw(movementY))

\* knobRelease: select the input when the pointer has not moved ...
knobReleaseSelects == moved = FALSE
\* (mutant of knobReleaseMoved: the flag is left as it is)
knobReleaseMoved_Keep == moved

\* ... and clear the flag
knobReleaseMoved == FALSE

\* ----------------------------------------------------------- listeners
\* A listener is <<event type, function, instance>>; the instance tells the
\* closures of different pointerlock(elem) / pointercapture(elem) calls
\* apart (0 for knobdrag's own and for module-level functions).
KnobMoveL == <<"pointermove", "knobMove", 0>>
KnobReleaseL == <<"pointerup", "knobRelease", 0>>
StopPropL == <<"pointermove", "stopPropagation", 0>>

PointerCaptureListeners(i) ==
    {<<"pointerdown", "pointerDown", i>>, <<"touchmove", "preventDefault", 0>>}

PointerLockListeners(i) ==
    {<<"mousedown", "enterLock", i>>, <<"mouseup", "exitLock", i>>,
     <<"pointerlockchange", "lockChange", i>>}

Attached(lsn, type, fn) == \E l \in lsn : l[1] = type /\ l[2] = fn

\* a fresh instance id for a new pointerlock(elem): the least id >= 2 none of
\* whose listeners is attached (a detached closure is garbage)
NewId(lsn) ==
    CHOOSE n \in 2..(Cardinality(lsn) + 2) :
        /\ \A l \in lsn : l[3] # n
        /\ \A m \in 2..(n - 1) : \E l \in lsn : l[3] = m

\* what action.destroy() removes, for the handle stored under `name`
HandleListeners(name, i) ==
    IF name = "pointerlock" THEN PointerLockListeners(i)
    ELSE PointerCaptureListeners(i)

\* (mutant of OptionsSubscriber: the previous pointerlock behaviour is not
\* destroyed before its successor is installed)
OptionsSubscriber_NoDestroy(acts, lsn, lockCursor) ==
    LET id == NewId(lsn)
    IN IF lockCursor
       THEN [actions |-> [k \in DOMAIN acts \cup {"pointerlock"} |->
                             IF k = "pointerlock" THEN id ELSE acts[k]],
             listeners |-> lsn \cup PointerLockListeners(id)]
       ELSE [actions |-> [k \in DOMAIN acts \ {"pointerlock"} |-> acts[k]],
             listeners |-> lsn]

\* the callback given to options.subscribe: destroy the pointerlock behaviour
\* there is, then install a new one or delete the key
OptionsSubscriber(acts, lsn, lockCursor) ==
    LET old == IF "pointerlock" \in DOMAIN acts
               THEN PointerLockListeners(acts["pointerlock"]) ELSE {}
        lsn1 == lsn \ old
        id == NewId(lsn1)
    IN IF lockCursor
       THEN [actions |-> [k \in DOMAIN acts \cup {"pointerlock"} |->
                             IF k = "pointerlock" THEN id ELSE acts[k]],
             listeners |-> lsn1 \cup PointerLockListeners(id)]
       ELSE [actions |-> [k \in DOMAIN acts \ {"pointerlock"} |-> acts[k]],
             listeners |-> lsn1]

\* the listeners left by knobdrag's destroy(): every handle of the map is
\* destroyed, knobMove is removed from pointermove, and knobMove (which was
\* never added there) is removed from pointerup
knobdragDestroy(acts, lsn) ==
    ((lsn \ UNION {HandleListeners(k, acts[k]) : k \in DOMAIN acts})
        \ {KnobMoveL}) \ {<<"pointerup", "knobMove", 0>>}

\* lockChange, run by every attached pointerlockchange listener
LockChanged(lsn, locked) ==
    IF Attached(lsn, "pointerlockchange", "lockChange")
    THEN (IF locked THEN lsn \cup {StopPropL} ELSE lsn \ {StopPropL})
    ELSE lsn

\* -------------------------------------------------------------- history
\* ev.d is the movementY of a pointermove that knobMove applied; of one it
\* ignored, only whether movementY was nonzero (1) or zero (0) is kept.
Nonzero(d) == IF d = 0 THEN 0 ELSE 1
E0 == [type |-> "none", d |-> 0, cap |-> FALSE, lock |-> FALSE, handled |-> FALSE,
       eff |-> FALSE, select |-> FALSE, setCapture |-> FALSE, reqLock |-> FALSE,
       hadMove |-> FALSE]
DeadTrack == [ok |-> FALSE, base |-> 0, sumY |-> 0, typed |-> FALSE]

\* ----------------------------------------------------------------- Init
Init ==
    /\ params \in ParamSet
    /\ range = params.max - params.min
    /\ scaleFactor = [num |-> params.space, den |-> range]
    /\ value \in StoreValues(params)
    /\ rawValue = Null
    /\ moved = FALSE
    /\ optionsLock \in BOOLEAN
    /\ LET r == OptionsSubscriber([k \in {"pointercapture"} |-> 1],
                                  PointerCaptureListeners(1), optionsLock)
       IN /\ actions = r.actions
          /\ listeners = r.listeners \cup {KnobMoveL, KnobReleaseL}
    /\ captured = {}
    /\ pointerLocked = FALSE
    /\ lockPending = FALSE
    /\ exitPending = FALSE
    /\ destroyed = FALSE
    /\ ev = E0
    /\ sinceUp = FALSE
    /\ track = [ok |-> TRUE, base |-> value, sumY |-> 0, typed |-> FALSE]
    /\ upRun = 0
    /\ fv = 0
    /\ fres = Null


\* -------------------------------------------------------------- actions
numeric == <<value, rawValue, moved>>
browser == <<captured, pointerLocked, lockPending, exitPending>>
lockstate == <<pointerLocked, lockPending, exitPending>>
attach == <<actions, listeners, optionsLock, destroyed>>
fnvars == <<fv, fres>>

\* A pointermove of pointer p with movementY = d reaches elem.
PointerMove(p, d) ==
    LET handled == KnobMoveL \in listeners
        eff == handled /\ knobMoveGuard(d, p)
        raw0 == IF rawValue = Null THEN value ELSE NumOf(rawValue)
        unclamped == knobMoveRaw(d) = raw0 - scaleMovement(d)
        inRange == params.min <= raw0 /\ raw0 <= params.max
    IN /\ ev' = [E0 EXCEPT !.type = "pointermove",
                           !.d = IF eff THEN d ELSE Nonzero(d),
                           !.cap = (p \in captured), !.lock = pointerLocked,
                           !.handled = handled, !.eff = eff]
       /\ IF eff
          THEN /\ moved' = TRUE
               /\ rawValue' = Num(knobMoveRaw(d))
               /\ value' = knobMoveValue(d)
               /\ sinceUp' = TRUE
               /\ track' = IF track.ok /\ unclamped
                           THEN [track EXCEPT !.sumY = @ + d, !.typed = FALSE]
                           ELSE DeadTrack
               /\ upRun' = IF d < 0 /\ (upRun > 0 \/ inRange)
                           THEN Min2(upRun - d, params.space) ELSE 0
          ELSE UNCHANGED <<numeric, sinceUp, track, upRun>>
       /\ UNCHANGED <<params, range, scaleFactor, attach, browser, fnvars>>

\* A pointerup of pointer p reaches elem; afterwards the browser releases
\* the pointer's capture.
PointerUp(p) ==
    LET handled == KnobReleaseL \in listeners
        select == handled /\ knobReleaseSelects
    IN /\ ev' = [E0 EXCEPT !.type = "pointerup", !.handled = handled,
                           !.select = select, !.hadMove = sinceUp]
       /\ moved' = IF handled THEN knobReleaseMoved ELSE moved
       /\ sinceUp' = IF handled THEN FALSE ELSE sinceUp
       /\ upRun' = 0
       /\ captured' = captured \ {p}
       /\ UNCHANGED <<params, range, scaleFactor, value, rawValue, attach,
                      lockstate, track, fnvars>>

\* A pointerdown of pointer p with the given button: pointerDown of the
\* pointercapture behaviour calls elem.setPointerCapture, which throws while
\* the document has a pointer-lock element and then captures nothing.
PointerDown(p, button) ==
    LET handled == Attached(listeners, "pointerdown", "pointerDown")
        setCapture == handled /\ button # 2
    IN /\ ev' = [E0 EXCEPT !.type = "pointerdown", !.handled = handled,
                           !.setCapture = setCapture]
       /\ captured' = IF setCapture /\ ~pointerLocked
                       THEN captured \cup {p} ELSE captured
       /\ UNCHANGED <<params, range, scaleFactor, numeric, attach, lockstate,
                      sinceUp, track, upRun, fnvars>>

\* A mousedown: enterLock of the pointerlock behaviour calls
\* elem.requestPointerLock(), which only files the request and returns.
MouseDown(button) ==
    LET handled == Attached(listeners, "mousedown", "enterLock")
        reqLock == handled /\ button # 2
    IN /\ ev' = [E0 EXCEPT !.type = "mousedown", !.handled = handled,
                           !.reqLock = reqLock]
       /\ lockPending' = (lockPending \/ reqLock)
       /\ UNCHANGED <<params, range, scaleFactor, numeric, attach, captured,
                      pointerLocked, exitPending, sinceUp, track, upRun, fnvars>>

\* The browser grants a requested lock, in a later task: elem becomes
\* document.pointerLockElement and pointerlockchange fires on document, where
\* lockChange runs if it is still attached; a lock that is applied releases
\* elem's pointer capture. For a request made while elem already holds the
\* lock the event is fired or not.
LockGranted(fires) ==
    LET dispatched == fires \/ ~pointerLocked
    IN /\ lockPending
       /\ lockPending' = FALSE
       /\ pointerLocked' = TRUE
       /\ captured' = {}
       /\ ev' = [E0 EXCEPT !.type = "pointerlockchange",
                           !.handled = dispatched /\
                               Attached(listeners, "pointerlockchange", "lockChange")]
       /\ listeners' = IF dispatched THEN LockChanged(listeners, TRUE) ELSE listeners
       /\ UNCHANGED <<params, range, scaleFactor, numeric, actions, optionsLock,
                      destroyed, exitPending, sinceUp, track, upRun, fnvars>>

\* The browser refuses a requested lock (pointerlockerror, which the code
\* does not listen to).
LockDenied ==
    /\ lockPending
    /\ lockPending' = FALSE
    /\ ev' = [E0 EXCEPT !.type = "pointerlockerror"]
    /\ UNCHANGED <<params, range, scaleFactor, numeric, attach, captured,
                   pointerLocked, exitPending, sinceUp, track, upRun, fnvars>>

\* A mouseup: exitLock calls document.exitPointerLock(), which only files the
\* exit and returns (and does nothing when no lock is held).
MouseUp ==
    LET handled == Attached(listeners, "mouseup", "exitLock")
    IN /\ ev' = [E0 EXCEPT !.type = "mouseup", !.handled = handled]
       /\ exitPending' = (exitPending \/ (handled /\ pointerLocked))
       /\ UNCHANGED <<params, range, scaleFactor, numeric, attach, captured,
                      pointerLocked, lockPending, sinceUp, track, upRun, fnvars>>

\* The lock is left, in a later task than any call of the code: the browser
\* carries out a filed exit, or the user leaves the lock (Esc), which also
\* settles an exit filed meanwhile. pointerlockchange fires on document, where
\* lockChange runs if it is still attached.
PointerLockChange(byUser) ==
    /\ pointerLocked
    /\ byUser \/ exitPending
    /\ ev' = [E0 EXCEPT !.type = "pointerlockchange",
                        !.handled = Attached(listeners, "pointerlockchange", "lockChange")]
    /\ pointerLocked' = FALSE
    /\ exitPending' = FALSE
    /\ listeners' = LockChanged(listeners, FALSE)
    /\ UNCHANGED <<params, range, scaleFactor, numeric, actions, optionsLock,
                   destroyed, captured, lockPending, sinceUp, track, upRun, fnvars>>

\* The options store is set: its subscriber (never unsubscribed) runs.
OptionsChange(lockCursor) ==
    LET r == OptionsSubscriber(actions, listeners, lockCursor)
    IN /\ ev' = [E0 EXCEPT !.type = "options",
                           !.handled = ("pointerlock" \in DOMAIN actions)]
       /\ optionsLock' = lockCursor
       /\ actions' = r.actions
       /\ listeners' = r.listeners
       /\ UNCHANGED <<params, range, scaleFactor, numeric, destroyed, browser,
                      sinceUp, track, upRun, fnvars>>

\* destroy() of the object knobdrag returned (Svelte calls it once).
Destroy ==
    /\ ~destroyed
    /\ ev' = [E0 EXCEPT !.type = "destroy"]
    /\ destroyed' = TRUE
    /\ listeners' = knobdragDestroy(actions, listeners)
    /\ UNCHANGED <<params, range, scaleFactor, numeric, actions, optionsLock,
                   browser, sinceUp, track, upRun, fnvars>>

\* update(newParams) of the object knobdrag returned.
Update(newParams) ==
    /\ ~destroyed
    /\ newParams # params
    /\ ev' = [E0 EXCEPT !.type = "update"]
    /\ params' = newParams
    /\ track' = [DeadTrack EXCEPT !.typed = track.typed]
    /\ upRun' = 0
    /\ UNCHANGED <<range, scaleFactor, numeric, attach, browser, sinceUp, fnvars>>

\* The store is set from outside the action (a value typed into the input).
SetStore(v) ==
    /\ v # value
    /\ ev' = [E0 EXCEPT !.type = "set"]
    /\ value' = v
    /\ track' = [(IF rawValue = Null THEN [track EXCEPT !.base = v] ELSE DeadTrack)
                    EXCEPT !.typed = (captured = {} /\ ~pointerLocked)]
    /\ upRun' = 0
    /\ UNCHANGED <<params, range, scaleFactor, rawValue, moved, attach, browser,
                   sinceUp, fnvars>>

Next ==
    \/ \E p \in PointerIds, d \in MoveSet : PointerMove(p, d)
    \/ \E p \in PointerIds : PointerUp(p)
    \/ \E p \in PointerIds, b \in Buttons : PointerDown(p, b)
    \/ \E b \in Buttons : MouseDown(b)
    \/ \E f \in BOOLEAN : LockGranted(f)
    \/ LockDenied
    \/ MouseUp
    \/ \E u \in BOOLEAN : PointerLockChange(u)
    \/ \E b \in BOOLEAN : OptionsChange(b)
    \/ Destroy
    \/ \E np \in UpdateSet : Update(np)
    \/ \E v \in TypedValues(params) : SetStore(v)

Spec == Init /\ [][Next]_vars


\* ------------------------------------------- floorToStep on its own (SpecFn)
FnSteps == {Den \div 2, U(1), U(2), U(3)}
\* quarters between -MaxFn/4 and MaxFn/4, and two values 2^-21 below a multiple
FnInputs == {k * (Den \div 4) : k \in -MaxFn..MaxFn} \cup {U(1) - 1, U(6) - 1}

InitFn ==
    /\ params \in {[min |-> 0, max |-> 0, step |-> s, space |-> 1] : s \in FnSteps}
    /\ fv \in FnInputs
    /\ fres = Null
    /\ range = 0
    /\ scaleFactor = [num |-> 1, den |-> 0]
    /\ value = 0
    /\ rawValue = Null
    /\ moved = FALSE
    /\ optionsLock = FALSE
    /\ actions = [k \in {"pointercapture"} |-> 1]
    /\ listeners = {}
    /\ captured = {}
    /\ pointerLocked = FALSE
    /\ lockPending = FALSE
    /\ exitPending = FALSE
    /\ destroyed = FALSE
    /\ ev = E0
    /\ sinceUp = FALSE
    /\ track = DeadTrack
    /\ upRun = 0

ApplyFloorToStep ==
    /\ fres = Null
    /\ fres' = Num(floorToStep(fv))
    /\ UNCHANGED <<params, range, scaleFactor, numeric, attach, browser, ev,
                   sinceUp, track, upRun, fv>>

NextFn == ApplyFloorToStep

SpecFn == InitFn /\ [][NextFn]_vars

\* ================================================================ claims
EffectiveMove == ev.type = "pointermove" /\ ev.eff

\* C1 (Bounded): every value knobMove writes to the store lies in [min, max].
C1_Bounded ==
    EffectiveMove => (params.min <= value /\ value <= params.max)

\* C2 (Stepped): with integer min, max and step, every value knobMove writes
\* to the store is a whole multiple of params.step.
C2_Stepped ==
    EffectiveMove => value % params.step = 0

\* C3 (floorToStep): the result is the greatest multiple of step that is
\* <= v: a multiple of step, result <= v and v - result < step.
C3_FloorToStep ==
    fres # Null =>
        /\ NumOf(fres) % params.step = 0
        /\ NumOf(fres) <= fv
        /\ fv - NumOf(fres) < params.step


\* C4 (destroy detaches): once destroy() has been called no listener of
\* knobdrag or of its behaviours is attached, and every later pointer, mouse
\* or pointerlockchange event leaves the store, rawValue and moved unchanged
\* and triggers no select(), setPointerCapture or requestPointerLock.
DomEvents == {"pointermove", "pointerup", "pointerdown", "mousedown", "mouseup",
              "pointerlockchange"}
C4_DestroyDetaches ==
    [][destroyed' =>
          /\ listeners' = {}
          /\ (destroyed /\ ev'.type \in DomEvents) =>
                /\ UNCHANGED <<value, rawValue, moved>>
                /\ ~ev'.select /\ ~ev'.setCapture /\ ~ev'.reqLock]_vars

\* C5 (behaviour handles): the pointercapture handle is always in the map,
\* the pointerlock handle is there iff the latest options value has
\* lockCursor, and at most one pointerlock behaviour has listeners attached.
LockInstances(lsn) ==
    {l[3] : l \in {x \in lsn : x[2] \in {"enterLock", "exitLock", "lockChange"}}}
C5_Handles ==
    /\ "pointercapture" \in DOMAIN actions
    /\ ("pointerlock" \in DOMAIN actions) <=> optionsLock
    /\ Cardinality(LockInstances(listeners)) <= 1
\* an options change replaced a pointerlock behaviour by a new one
C5_Witness ==
    /\ ev.type = "options" /\ ev.handled /\ optionsLock
    /\ Cardinality(LockInstances(listeners)) = 1

\* C6 (last step attainable): when max is a multiple of step, an upward drag
\* of at least params.space pixels leaves the store at max, and further
\* upward movement keeps it there.
C6_LastStep ==
    (params.max % params.step = 0 /\ upRun >= params.space) => value = params.max

\* C7 (scale): an effective pointermove with movementY = d changes rawValue
\* by -d * (max - min) / space before clamping.
C7_Scale ==
    [][(ev'.type = "pointermove" /\ ev'.eff) =>
          rawValue' = Num(clamp(params.min,
                                (IF rawValue = Null THEN value ELSE NumOf(rawValue))
                                    - (ev'.d * (params.max - params.min))
                                          \div params.space,
                                params.max))]_vars

\* C8 (buffering): while only unclamped pointermoves have acted, the store
\* holds floorToStep(initial value - scaled sum of movementY); and a move
\* that keeps rawValue within one step interval [k*step, (k+1)*step) leaves
\* the store's value unchanged.
C8_Sum ==
    (EffectiveMove /\ track.ok) =>
        value = floorToStep(track.base - scaleMovement(track.sumY))
SameStepInterval(a, b) == a \div params.step = b \div params.step
C8_Buffered ==
    [][/\ C8_Sum'
       /\ (/\ ev'.type = "pointermove" /\ ev'.eff
           /\ rawValue # Null
           /\ value = floorToStep(NumOf(rawValue))
           /\ SameStepInterval(NumOf(rawValue), NumOf(rawValue')))
          => value' = value]_vars

\* C9 (guard): a pointermove handled by knobMove leaves the store, rawValue
\* and moved unchanged when movementY is 0 or elem has neither the pointer's
\* capture nor the pointer lock; otherwise it sets moved and rawValue and
\* writes floorToStep(rawValue) to the store.
C9_Guard ==
    [][(ev'.type = "pointermove" /\ ev'.handled) =>
          IF ev'.d # 0 /\ (ev'.cap \/ ev'.lock)
          THEN /\ moved'
               /\ rawValue' # Null
               /\ value' = floorToStep(NumOf(rawValue'))
          ELSE UNCHANGED <<value, rawValue, moved>>]_vars
\* a move was applied on the strength of the pointer lock alone
C9_Witness ==
    ev.type = "pointermove" /\ ev.eff /\ ~ev.cap /\ ev.lock /\ ev.d # 0

\* C10 (click versus drag): a pointerup handled by knobRelease selects the
\* input iff knobMove has not passed its guard since the previous pointerup
\* (or since attachment), and leaves moved false.
C10_ClickOrDrag ==
    (ev.type = "pointerup" /\ ev.handled) =>
        /\ ev.select <=> ~ev.hadMove
        /\ moved = FALSE
\* a pointerup that ended a drag, and so selected nothing
C10_Witness ==
    ev.type = "pointerup" /\ ev.handled /\ ev.hadMove /\ ~ev.select


\* C11 (update): after update(newParams) a captured pointermove computes the
\* new value with newParams' min, max, step and space, as a knobdrag freshly
\* attached with newParams (scaleFactor = space / (max - min)) and the same
\* rawValue would.  Stated of the first pointermove after the update.
FreshScaleMovement(distance) ==
    IF params.max = params.min THEN 0
    ELSE (distance * (params.max - params.min)) \div params.space
C11_UpdateFollowed ==
    [][(ev.type = "update" /\ ev'.type = "pointermove" /\ ev'.eff) =>
          LET fresh == clamp(params.min,
                             (IF rawValue = Null THEN value ELSE NumOf(rawValue))
                                 - FreshScaleMovement(ev'.d),
                             params.max)
          IN /\ rawValue' = Num(fresh)
             /\ value' = floorToStep(fresh)]_vars


\* C12 (moves start from the store): when the store was set to v from
\* outside between two drags, the first effective pointermove of the next
\* drag writes floorToStep(clamp(min, v - scaled movementY, max)).
C12_FromStore ==
    [][(track.typed /\ ev'.type = "pointermove" /\ ev'.eff) =>
          value' = floorToStep(clamp(params.min,
                                     value - scaleMovement(ev'.d),
                                     params.max))]_vars

====
